---- MODULE Spec2Model ----
(***************************************************************************)
(* A model of bst-rs: the binary search tree Bst<E> of src/src/lib.rs, its *)
(* stack-based in-order iterator BstIter, Display rendering and sum(), as  *)
(* driven by src/src/main.rs, where E = i32.                               *)
(*                                                                         *)
(* Boxed nodes live in `heap`, a sequence of node records indexed by node  *)
(* identity (allocation order).  Option<Box<Bst<E>>> is a node identity or *)
(* None.  The two bindings of main, `sample` and `sample2`, hold the       *)
(* identity of their root node.                                            *)
(***************************************************************************)
EXTENDS Integers, Sequences, FiniteSets, TLC

VARIABLES heap, sample, sample2, it, it2, trues, given, last

vars == <<heap, sample, sample2, it, it2, trues, given, last>>

(* ---- bounds ---- *)
\* total number of nodes ever allocated (both trees)
MaxNodes == 5
\* number of next() calls made on an exhausted iterator
MaxNones == 2

(* ---- the element type, E = i32 ---- *)
I32_MAX == 2147483647
I32_MIN == -2147483647 - 1

\* the values the caller constructs and inserts with
Values == {I32_MIN, -4, 5, I32_MAX}

\* Option::None for a child link
None == 0

Trees == {"sample", "sample2"}

(* ---- Ord::cmp on i32 ---- *)
cmp(a, b) == IF a < b THEN "Less" ELSE IF a = b THEN "Equal" ELSE "Greater"

(* ---- Bst::new ---- *)
BstNew(value) == [value |-> value, left |-> None, right |-> None]

(* ---- Bst::insert ---- *)
\* h: the heap, self: the node insert is called on; the result is the heap
\* after the call and the returned bool
RECURSIVE insert(_, _, _)

\* insert with the Less arm attaching the new leaf as the right child
insert_less_sets_right(h, self, new_val) ==
    LET ord == cmp(new_val, h[self].value) IN
    CASE ord = "Equal" -> [heap |-> h, ret |-> FALSE]
      [] ord = "Less" ->
            IF h[self].left # None
            THEN insert(h, h[self].left, new_val)
            ELSE [heap |-> Append([h EXCEPT ![self].right = Len(h) + 1],
                                  BstNew(new_val)),
                  ret |-> TRUE]
      [] ord = "Greater" ->
            IF h[self].right # None
            THEN insert(h, h[self].right, new_val)
            ELSE [heap |-> Append([h EXCEPT ![self].right = Len(h) + 1],
                                  BstNew(new_val)),
                  ret |-> TRUE]

\* insert with Equal handled by the Greater arm
insert_equal_goes_right(h, self, new_val) ==
    LET ord == cmp(new_val, h[self].value) IN
    CASE ord = "Less" ->
            IF h[self].left # None
            THEN insert(h, h[self].left, new_val)
            ELSE [heap |-> Append([h EXCEPT ![self].left = Len(h) + 1],
                                  BstNew(new_val)),
                  ret |-> TRUE]
      [] ord \in {"Equal", "Greater"} ->
            IF h[self].right # None
            THEN insert(h, h[self].right, new_val)
            ELSE [heap |-> Append([h EXCEPT ![self].right = Len(h) + 1],
                                  BstNew(new_val)),
                  ret |-> TRUE]

\* insert that reports false for a value stored below the root as well as
\* for a new value attached on the left
insert_left_returns_false(h, self, new_val) ==
    LET ord == cmp(new_val, h[self].value) IN
    CASE ord = "Equal" -> [heap |-> h, ret |-> FALSE]
      [] ord = "Less" ->
            IF h[self].left # None
            THEN insert(h, h[self].left, new_val)
            ELSE [heap |-> Append([h EXCEPT ![self].left = Len(h) + 1],
                                  BstNew(new_val)),
                  ret |-> FALSE]
      [] ord = "Greater" ->
            IF h[self].right # None
            THEN insert(h, h[self].right, new_val)
            ELSE [heap |-> Append([h EXCEPT ![self].right = Len(h) + 1],
                                  BstNew(new_val)),
                  ret |-> TRUE]

insert(h, self, new_val) ==
    LET ord == cmp(new_val, h[self].value) IN
    CASE ord = "Equal" -> [heap |-> h, ret |-> FALSE]
      [] ord = "Less" ->
            IF h[self].left # None
            THEN insert(h, h[self].left, new_val)
            ELSE [heap |-> Append([h EXCEPT ![self].left = Len(h) + 1],
                                  BstNew(new_val)),
                  ret |-> TRUE]
      [] ord = "Greater" ->
            IF h[self].right # None
            THEN insert(h, h[self].right, new_val)
            ELSE [heap |-> Append([h EXCEPT ![self].right = Len(h) + 1],
                                  BstNew(new_val)),
                  ret |-> TRUE]

(* ---- #[derive(Clone)] for Bst: a deep copy ---- *)
\* the result is the heap with the copy added and the identity of the copy
RECURSIVE clone(_, _)

\* a copy of the root record alone, its child links still naming the
\* children of the original
clone_shallow(h, self) ==
    [heap |-> Append(h, h[self]), id |-> Len(h) + 1]

clone(h, self) ==
    LET l == IF h[self].left # None THEN clone(h, h[self].left)
             ELSE [heap |-> h, id |-> None]
        r == IF h[self].right # None THEN clone(l.heap, h[self].right)
             ELSE [heap |-> l.heap, id |-> None]
    IN  [heap |-> Append(r.heap, [value |-> h[self].value,
                                  left |-> l.id, right |-> r.id]),
         id |-> Len(r.heap) + 1]

(* ---- BstIter ---- *)
\* fill_left: push node and all its (recursive) left children
RECURSIVE fill_left(_, _, _)

\* fill_left that pushes node and does not descend
fill_left_no_descent(h, nodes, node) == Append(nodes, node)

\* fill_left that pushes node and its left child, and stops there
fill_left_one_level(h, nodes, node) ==
    LET pushed == Append(nodes, node) IN
    IF h[node].left # None
    THEN Append(pushed, h[node].left)
    ELSE pushed

\* fill_left that also pushes the right child of node, below node
fill_left_pushes_right(h, nodes, node) ==
    LET with_right == IF h[node].right # None
                      THEN Append(nodes, h[node].right)
                      ELSE nodes
        pushed == Append(with_right, node)
    IN  IF h[node].left # None
        THEN fill_left(h, pushed, h[node].left)
        ELSE pushed

fill_left(h, nodes, node) ==
    LET pushed == Append(nodes, node) IN
    IF h[node].left # None
    THEN fill_left(h, pushed, h[node].left)
    ELSE pushed

\* the call nesting of fill_left(node) as written: one activation for node
\* and one inside it for each left child below
RECURSIVE fill_left_depth(_, _)

\* the call nesting of a descent that is a recursive walk of both subtrees
fill_left_depth_both(h, node) ==
    LET l == IF h[node].left # None THEN fill_left_depth(h, h[node].left)
             ELSE 0
        r == IF h[node].right # None THEN fill_left_depth(h, h[node].right)
             ELSE 0
    IN  1 + (IF l > r THEN l ELSE r)

fill_left_depth(h, node) ==
    IF h[node].left # None
    THEN 1 + fill_left_depth(h, h[node].left)
    ELSE 1

\* the nodes below node in descending order of their position in the tree
RECURSIVE Flatten(_, _)
Flatten(h, node) ==
    (IF h[node].right # None THEN Flatten(h, h[node].right) ELSE <<>>)
    \o <<node>>
    \o (IF h[node].left # None THEN Flatten(h, h[node].left) ELSE <<>>)

\* new that pushes every node of the tree, the least on top
BstIterNew_flatten(h, node) == Flatten(h, node)

\* new that pushes node without its left children
BstIterNew_root_only(h, node) == <<node>>

\* BstIter::new
BstIterNew(h, node) == fill_left(h, <<>>, node)

\* the entry on top of a non-empty stack
Top(nodes) == nodes[Len(nodes)]

\* Vec::pop: the vector after the call and the popped entry (<<>> is None)
pop(nodes) ==
    IF nodes = <<>>
    THEN [nodes |-> <<>>, ret |-> <<>>]
    ELSE [nodes |-> SubSeq(nodes, 1, Len(nodes) - 1),
          ret |-> <<nodes[Len(nodes)]>>]

\* next that pushes the right child without its left children
next_no_descent(h, nodes) ==
    LET p == pop(nodes) IN
    IF p.ret # <<>>
    THEN LET node == p.ret[1] IN
         [nodes |-> IF h[node].right # None
                    THEN Append(p.nodes, h[node].right)
                    ELSE p.nodes,
          ret |-> <<h[node].value>>]
    ELSE [nodes |-> p.nodes, ret |-> <<>>]

\* next that, finding the stack empty, reports None and starts over from
\* the first node
next_restart(h, nodes) ==
    LET p == pop(nodes) IN
    IF p.ret # <<>>
    THEN LET node == p.ret[1] IN
         [nodes |-> IF h[node].right # None
                    THEN fill_left(h, p.nodes, h[node].right)
                    ELSE p.nodes,
          ret |-> <<h[node].value>>]
    ELSE [nodes |-> fill_left(h, p.nodes, 1), ret |-> <<>>]

\* next that descends from the left child of the popped node
next_descends_left(h, nodes) ==
    LET p == pop(nodes) IN
    IF p.ret # <<>>
    THEN LET node == p.ret[1] IN
         [nodes |-> IF h[node].left # None
                    THEN fill_left(h, p.nodes, h[node].left)
                    ELSE p.nodes,
          ret |-> <<h[node].value>>]
    ELSE [nodes |-> p.nodes, ret |-> <<>>]

\* Iterator::next: the stack after the call and the returned Option<&E>
\* (<<>> is None, <<v>> is Some(v))
next(h, nodes) ==
    LET p == pop(nodes) IN
    IF p.ret # <<>>
    THEN LET node == p.ret[1] IN
         [nodes |-> IF h[node].right # None
                    THEN fill_left(h, p.nodes, h[node].right)
                    ELSE p.nodes,
          ret |-> <<h[node].value>>]
    ELSE [nodes |-> p.nodes, ret |-> <<>>]

\* Bst::iter
iter(h, self) == BstIterNew(h, self)

(* ---- Display for i32: decimal digits, '-' before a negative value ---- *)
\* text is a sequence of characters
DigitChars == <<"0", "1", "2", "3", "4", "5", "6", "7", "8", "9">>

RECURSIVE FmtNat(_)
FmtNat(n) ==
    IF n < 10
    THEN <<DigitChars[n + 1]>>
    ELSE FmtNat(n \div 10) \o <<DigitChars[(n % 10) + 1]>>

\* the digits of |v| for v < 0, without negating v (-I32_MIN is no i32)
FmtNeg(v) ==
    LET d == (10 - (v % 10)) % 10
        rest == (-(v + d)) \div 10
    IN  (IF rest > 0 THEN FmtNat(rest) ELSE <<>>) \o <<DigitChars[d + 1]>>

FmtInt(v) == IF v < 0 THEN <<"-">> \o FmtNeg(v) ELSE FmtNat(v)

(* ---- Display for Bst ---- *)
RECURSIVE fmt(_, _)

\* fmt that writes the value before the left subtree
fmt_preorder(h, self) ==
    FmtInt(h[self].value)
    \o (IF h[self].left # None THEN <<" ">> \o fmt(h, h[self].left) ELSE <<>>)
    \o (IF h[self].right # None THEN <<" ">> \o fmt(h, h[self].right)
        ELSE <<>>)

\* fmt that writes the right subtree without the space before it
fmt_no_space_right(h, self) ==
    (IF h[self].left # None THEN fmt(h, h[self].left) \o <<" ">> ELSE <<>>)
    \o FmtInt(h[self].value)
    \o (IF h[self].right # None THEN fmt(h, h[self].right) ELSE <<>>)

fmt(h, self) ==
    (IF h[self].left # None THEN fmt(h, h[self].left) \o <<" ">> ELSE <<>>)
    \o FmtInt(h[self].value)
    \o (IF h[self].right # None THEN <<" ">> \o fmt(h, h[self].right)
        ELSE <<>>)

(* ---- AddAssign<&i32> for i32 ---- *)
\* does a + b leave the range of i32
Overflows(a, b) ==
    \/ b > 0 /\ a > I32_MAX - b
    \/ b < 0 /\ a < I32_MIN - b

\* a + b modulo 2^32, in two's complement
wrapping_add(a, b) ==
    IF b > 0 /\ a > I32_MAX - b THEN (a + I32_MIN) + (b + I32_MIN)
    ELSE IF b < 0 /\ a < I32_MIN - b THEN (a - I32_MIN) + (b - I32_MIN)
    ELSE a + b

\* accum += value: panics on overflow when the build has overflow checks
\* (debug profile), wraps otherwise (release profile)
add_assign(accum, value, overflow_checks) ==
    IF Overflows(accum, value) /\ overflow_checks
    THEN [ok |-> FALSE, value |-> accum]
    ELSE [ok |-> TRUE, value |-> wrapping_add(accum, value)]

(* ---- Bst::sum ---- *)
\* Iterator::fold over the iterator whose stack is nodes
RECURSIVE fold(_, _, _, _)
fold(h, nodes, accum, overflow_checks) ==
    LET r == next(h, nodes) IN
    IF r.ret = <<>>
    THEN [ok |-> TRUE, value |-> accum]
    ELSE LET a == add_assign(accum, r.ret[1], overflow_checks) IN
         IF a.ok THEN fold(h, r.nodes, a.value, overflow_checks) ELSE a

\* sum whose accumulator starts from the root's value
sum_from_root(h, self, overflow_checks) ==
    fold(h, iter(h, self), h[self].value, overflow_checks)

sum(h, self, overflow_checks) == fold(h, iter(h, self), 0, overflow_checks)

(* ---- state ---- *)
root(t) == IF t = "sample" THEN sample ELSE sample2

\* an iterator: its stack, and the history of the traversal (out: the
\* values returned, nones: the None results, pushed/popped: the nodes
\* pushed onto and popped off the stack, depth: the deepest nesting of
\* fill_left activations in the last call)
NoIter == [alive |-> FALSE, tree |-> "sample", nodes |-> <<>>,
           out |-> <<>>, nones |-> 0, pushed |-> <<>>, popped |-> <<>>,
           depth |-> 0]

\* the stack frames the self-call of fill_left uses: the call is in tail
\* position, so a build may run it in the caller's frame
Frames(calls, tail_call_elim) ==
    IF tail_call_elim /\ calls > 1 THEN 1 ELSE calls

\* the iterator returned by t.iter()
NewIter(t, tail_call_elim) ==
    LET nodes == iter(heap, root(t)) IN
    [alive |-> TRUE, tree |-> t, nodes |-> nodes, out |-> <<>>,
     nones |-> 0, pushed |-> nodes, popped |-> <<>>,
     depth |-> Frames(fill_left_depth(heap, root(t)), tail_call_elim)]

\* the iterator i after i.next(), which returns next(heap, i.nodes).ret
Advance(i, tail_call_elim) ==
    LET p == pop(i.nodes)
        r == next(heap, i.nodes)
        right == IF p.ret # <<>> THEN heap[p.ret[1]].right ELSE None
    IN  [i EXCEPT !.nodes = r.nodes,
                  !.out = @ \o r.ret,
                  !.nones = @ + (IF r.ret = <<>> THEN 1 ELSE 0),
                  !.pushed = @ \o SubSeq(r.nodes, Len(p.nodes) + 1,
                                         Len(r.nodes)),
                  !.popped = @ \o p.ret,
                  !.depth = IF right # None
                            THEN Frames(fill_left_depth(heap, right),
                                        tail_call_elim)
                            ELSE 0]

\* the last call: its receiver, argument and result (ok: the bool returned
\* by insert, Some/None for next, returned/panicked for sum; item: the value
\* returned by next or sum; text: the rendered tree)
Op(op, t, arg, ok, item, text) ==
    [op |-> op, tree |-> t, arg |-> arg, ok |-> ok, item |-> item,
     text |-> text]

\* a panic ends the program
Running == last.ok \/ last.op # "sum"

Init ==
    \E v \in Values :
        /\ heap = <<BstNew(v)>>
        /\ sample = 1
        /\ sample2 = None
        /\ it = NoIter
        /\ it2 = NoIter
        /\ trues = [t \in Trees |-> 0]
        /\ given = [t \in Trees |-> IF t = "sample" THEN {v} ELSE {}]
        /\ last = Op("new", "sample", v, TRUE, <<>>, <<>>)

\* sample.insert(v) / sample2.insert(v); needs &mut: no iterator borrows t
Insert(t, v) ==
    /\ Running
    /\ root(t) # None
    /\ ~(it.alive /\ it.tree = t)
    /\ ~(it2.alive /\ it2.tree = t)
    /\ LET r == insert(heap, root(t), v) IN
        /\ Len(r.heap) <= MaxNodes
        /\ heap' = r.heap
        /\ trues' = [trues EXCEPT ![t] = @ + (IF r.ret THEN 1 ELSE 0)]
        /\ given' = [given EXCEPT ![t] = @ \cup {v}]
        /\ last' = Op("insert", t, v, r.ret, <<>>, <<>>)
    /\ UNCHANGED <<sample, sample2, it, it2>>

\* let sample2 = sample.clone();
Clone ==
    /\ Running
    /\ sample2 = None
    /\ LET r == clone(heap, sample) IN
        /\ Len(r.heap) <= MaxNodes
        /\ heap' = r.heap
        /\ sample2' = r.id
    /\ trues' = [trues EXCEPT !["sample2"] = trues["sample"]]
    /\ given' = [given EXCEPT !["sample2"] = given["sample"]]
    /\ last' = Op("clone", "sample2", 0, TRUE, <<>>, <<>>)
    /\ UNCHANGED <<sample, it, it2>>

\* t.iter()
Iter(t) ==
    /\ Running
    /\ root(t) # None
    /\ ~it.alive
    /\ \E tail_call_elim \in BOOLEAN : it' = NewIter(t, tail_call_elim)
    /\ last' = Op("iter", t, 0, TRUE, <<>>, <<>>)
    /\ UNCHANGED <<heap, sample, sample2, it2, trues, given>>

\* it.next(), were next to take the right child out of the popped node
IterNext_takes_right ==
    /\ Running
    /\ it.alive
    /\ it.nones < MaxNones
    /\ \E tail_call_elim \in BOOLEAN : it' = Advance(it, tail_call_elim)
    /\ LET r == next(heap, it.nodes) IN
        last' = Op("next", it.tree, 0, r.ret # <<>>, r.ret, <<>>)
    /\ heap' = IF it.nodes # <<>>
               THEN [heap EXCEPT ![Top(it.nodes)].right = None]
               ELSE heap
    /\ UNCHANGED <<sample, sample2, it2, trues, given>>

\* it.next()
IterNext ==
    /\ Running
    /\ it.alive
    /\ it.nones < MaxNones
    /\ \E tail_call_elim \in BOOLEAN : it' = Advance(it, tail_call_elim)
    /\ LET r == next(heap, it.nodes) IN
        last' = Op("next", it.tree, 0, r.ret # <<>>, r.ret, <<>>)
    /\ UNCHANGED <<heap, sample, sample2, it2, trues, given>>

\* the iterator goes out of scope
IterDrop ==
    /\ Running
    /\ it.alive
    /\ it' = NoIter
    /\ last' = Op("drop", it.tree, 0, TRUE, <<>>, <<>>)
    /\ UNCHANGED <<heap, sample, sample2, it2, trues, given>>

\* a second iterator over a tree, alive together with the first
Iter2(t) ==
    /\ Running
    /\ root(t) # None
    /\ ~it2.alive
    /\ \E tail_call_elim \in BOOLEAN : it2' = NewIter(t, tail_call_elim)
    /\ last' = Op("iter2", t, 0, TRUE, <<>>, <<>>)
    /\ UNCHANGED <<heap, sample, sample2, it, trues, given>>

\* next() on the second iterator, were the two iterators to work on one
\* stack
Iter2Next_shared_stack ==
    /\ Running
    /\ it2.alive
    /\ it2.nones < MaxNones
    /\ \E tail_call_elim \in BOOLEAN :
        LET a == Advance([it2 EXCEPT !.nodes = it.nodes], tail_call_elim) IN
        /\ it2' = a
        /\ it' = [it EXCEPT !.nodes = a.nodes]
    /\ LET r == next(heap, it.nodes) IN
        last' = Op("next2", it2.tree, 0, r.ret # <<>>, r.ret, <<>>)
    /\ UNCHANGED <<heap, sample, sample2, trues, given>>

\* next() on the second iterator
Iter2Next ==
    /\ Running
    /\ it2.alive
    /\ it2.nones < MaxNones
    /\ \E tail_call_elim \in BOOLEAN : it2' = Advance(it2, tail_call_elim)
    /\ LET r == next(heap, it2.nodes) IN
        last' = Op("next2", it2.tree, 0, r.ret # <<>>, r.ret, <<>>)
    /\ UNCHANGED <<heap, sample, sample2, it, trues, given>>

\* the second iterator goes out of scope
Iter2Drop ==
    /\ Running
    /\ it2.alive
    /\ it2' = NoIter
    /\ last' = Op("drop2", it2.tree, 0, TRUE, <<>>, <<>>)
    /\ UNCHANGED <<heap, sample, sample2, it, trues, given>>

\* println!("{}", t)
Render(t) ==
    /\ Running
    /\ root(t) # None
    /\ last' = Op("render", t, 0, TRUE, <<>>, fmt(heap, root(t)))
    /\ UNCHANGED <<heap, sample, sample2, it, it2, trues, given>>

\* t.sum()
Sum(t) ==
    /\ Running
    /\ root(t) # None
    /\ \E overflow_checks \in BOOLEAN :
        LET r == sum(heap, root(t), overflow_checks) IN
        last' = Op("sum", t, 0, r.ok, <<r.value>>, <<>>)
    /\ UNCHANGED <<heap, sample, sample2, it, it2, trues, given>>

Next ==
    \/ \E t \in Trees, v \in Values : Insert(t, v)
    \/ Clone
    \/ \E t \in Trees : Iter(t)
    \/ IterNext
    \/ IterDrop
    \/ \E t \in Trees : Render(t)
    \/ \E t \in Trees : Sum(t)

Spec == Init /\ [][Next]_vars

\* the callers that build, copy, print and sum trees
NextTree ==
    \/ \E t \in Trees, v \in Values : Insert(t, v)
    \/ Clone
    \/ \E t \in Trees : Render(t)
    \/ \E t \in Trees : Sum(t)

SpecTree == Init /\ [][NextTree]_vars

\* the callers that build, copy and traverse trees
NextIter ==
    \/ \E t \in Trees, v \in Values : Insert(t, v)
    \/ Clone
    \/ \E t \in Trees : Iter(t)
    \/ IterNext
    \/ IterDrop

SpecIter == Init /\ [][NextIter]_vars

\* the callers that build one tree and traverse it with two iterators
NextIters ==
    \/ \E v \in Values : Insert("sample", v)
    \/ Iter("sample")
    \/ IterNext
    \/ IterDrop
    \/ Iter2("sample")
    \/ Iter2Next
    \/ Iter2Drop

SpecIters == Init /\ [][NextIters]_vars

(***************************************************************************)
(* Vocabulary of the properties                                            *)
(***************************************************************************)
\* the nodes of the tree owned by node r (none for an absent child)
RECURSIVE Nodes(_, _)
Nodes(h, r) ==
    IF r = None THEN {}
    ELSE {r} \cup Nodes(h, h[r].left) \cup Nodes(h, h[r].right)

\* the values stored in the tree owned by r
Vals(h, r) == {h[n].value : n \in Nodes(h, r)}

\* the node whose child link holds n (None for a root)
Parent(h, n) ==
    IF \E m \in 1..Len(h) : n \in {h[m].left, h[m].right}
    THEN CHOOSE m \in 1..Len(h) : n \in {h[m].left, h[m].right}
    ELSE None

\* the trees that exist
Live == {t \in Trees : root(t) # None}

IsBst(h, r) ==
    \A n \in Nodes(h, r) :
        /\ \A m \in Nodes(h, h[n].left) : h[m].value < h[n].value
        /\ \A m \in Nodes(h, h[n].right) : h[m].value > h[n].value

\* no value is stored in two nodes of the tree
NoDuplicate(h, r) ==
    \A n, m \in Nodes(h, r) : h[n].value = h[m].value => n = m

StrictlyAscending(seq) ==
    \A i \in 1..(Len(seq) - 1) : seq[i] < seq[i + 1]

Range(seq) == {seq[i] : i \in 1..Len(seq)}

\* the values of seq, each formatted, with a single space between them
RECURSIVE Join(_)
Join(seq) ==
    IF seq = <<>> THEN <<>>
    ELSE IF Len(seq) = 1 THEN FmtInt(seq[1])
    ELSE FmtInt(seq[1]) \o <<" ">> \o Join(Tail(seq))

\* the values returned by calling next on the iterator whose stack is
\* nodes until it returns None
RECURSIVE Drain(_, _)
Drain(h, nodes) ==
    LET r == next(h, nodes) IN
    IF r.ret = <<>> THEN <<>> ELSE r.ret \o Drain(h, r.nodes)

\* the other binding of main
Other(t) == IF t = "sample" THEN "sample2" ELSE "sample"

\* the step is a call t.insert(v)
InsertStep(t, v) ==
    /\ last'.op = "insert"
    /\ last'.tree = t
    /\ last'.arg = v

(***************************************************************************)
(* C1: BST invariant.  In every tree reachable by Bst::new(v) followed by  *)
(* insert calls, for every node, every value in its left subtree is        *)
(* strictly less than the node's value and every value in its right        *)
(* subtree is strictly greater.                                            *)
(***************************************************************************)
C1_BstInvariant == \A t \in Live : IsBst(heap, root(t))

\* a tree of four nodes with a node that has both children
C1_Witness ==
    /\ Cardinality(Nodes(heap, sample)) = 4
    /\ \E n \in Nodes(heap, sample) :
          heap[n].left # None /\ heap[n].right # None
    /\ last.op = "insert" /\ last.ok

(***************************************************************************)
(* C2: for every tree built via Bst::new and insert, draining iter()       *)
(* (calling next until it returns None) yields a strictly ascending        *)
(* sequence whose elements are exactly the values stored in the tree,      *)
(* each returned once.                                                     *)
(***************************************************************************)
C2_DrainAscending ==
    it.alive =>
        /\ StrictlyAscending(it.out)
        /\ it.nones > 0 =>
             /\ Range(it.out) = Vals(heap, root(it.tree))
             /\ Len(it.out) = Cardinality(Nodes(heap, root(it.tree)))
             /\ it.out = Drain(heap, iter(heap, root(it.tree)))

\* a tree of four values, one node with both children, was drained
C2_Witness ==
    /\ it.alive /\ it.nones > 0
    /\ Len(it.out) = 4
    /\ \E n \in Nodes(heap, root(it.tree)) :
          heap[n].left # None /\ heap[n].right # None

(***************************************************************************)
(* C3: inserting a value that is already present (at the root or at any    *)
(* depth) returns false and leaves the tree unchanged: same nodes, same    *)
(* values, same links, same rendered form.                                 *)
(***************************************************************************)
C3_DuplicateInsert ==
    [][\A t \in Live, v \in Values :
         (InsertStep(t, v) /\ v \in Vals(heap, root(t))) =>
            /\ ~last'.ok
            /\ heap' = heap
            /\ root(t)' = root(t)
            /\ Nodes(heap', root(t)') = Nodes(heap, root(t))
            /\ fmt(heap', root(t)') = fmt(heap, root(t))]_vars

\* a duplicate of a value stored two levels below the root was inserted
C3_Witness ==
    /\ last.op = "insert" /\ ~last.ok
    /\ \E n \in Nodes(heap, root(last.tree)) :
          /\ heap[n].value = last.arg
          /\ Parent(heap, n) # None
          /\ Parent(heap, Parent(heap, n)) # None

(***************************************************************************)
(* C4: insert(v) returns true if and only if v was not stored in the tree  *)
(* before the call; after the call the set of stored values is the         *)
(* previous set plus v, and no value is ever stored in two nodes.          *)
(***************************************************************************)
C4_InsertResult ==
    [][\A t \in Live, v \in Values :
         InsertStep(t, v) =>
            /\ last'.ok <=> v \notin Vals(heap, root(t))
            /\ Vals(heap', root(t)') = Vals(heap, root(t)) \cup {v}
            /\ Vals(heap', root(t)') = given'[t]
            /\ NoDuplicate(heap', root(t)')]_vars

\* both outcomes have happened on a tree of three values: the last call
\* returned false and an earlier one true
C4_Witness ==
    /\ last.op = "insert" /\ ~last.ok
    /\ trues[last.tree] = 2
    /\ Cardinality(Vals(heap, root(last.tree))) = 3

(***************************************************************************)
(* C5: a successful insert adds exactly one new node, as a leaf, and       *)
(* changes nothing else: every node that existed before keeps its value,   *)
(* its parent and its other child, the root keeps the value it was         *)
(* constructed with, and no node is moved.                                 *)
(***************************************************************************)
C5_InsertFrame ==
    [][\A t \in Live, v \in Values :
         (InsertStep(t, v) /\ last'.ok) =>
            LET new == Len(heap) + 1
                p == Parent(heap', new)
            IN  /\ Len(heap') = Len(heap) + 1
                /\ heap'[new] = BstNew(v)
                /\ root(t)' = root(t)
                /\ Nodes(heap', root(t)') = Nodes(heap, root(t)) \cup {new}
                /\ p \in Nodes(heap, root(t))
                /\ \A n \in 1..Len(heap) :
                     /\ heap'[n].value = heap[n].value
                     /\ Parent(heap', n) = Parent(heap, n)
                     /\ n # p => heap'[n] = heap[n]
                /\ \/ /\ heap[p].left = None /\ heap'[p].left = new
                      /\ heap'[p].right = heap[p].right
                   \/ /\ heap[p].right = None /\ heap'[p].right = new
                      /\ heap'[p].left = heap[p].left]_vars

\* a leaf was attached two levels below the root, to a node that already
\* had its other child
C5_Witness ==
    /\ last.op = "insert" /\ last.ok
    /\ LET new == Len(heap)
           p == Parent(heap, new)
       IN  /\ heap[new].value = last.arg
           /\ p # None
           /\ Parent(heap, p) # None
           /\ heap[p].left # None /\ heap[p].right # None

(***************************************************************************)
(* C6: iterator/render agreement.  For every tree, the values produced by  *)
(* draining iter(), joined with single spaces, equal the Display rendering *)
(* of that tree.                                                           *)
(***************************************************************************)
C6_IterRenderAgree ==
    /\ \A t \in Live :
          Join(Drain(heap, iter(heap, root(t)))) = fmt(heap, root(t))
    /\ (it.alive /\ it.nones > 0) =>
          Join(it.out) = fmt(heap, root(it.tree))

\* the iterator over a tree of four values, with a negative value and a
\* node with both children, has been drained
C6_Witness ==
    /\ it.alive /\ it.nones > 0
    /\ Len(it.out) = 4
    /\ it.out[1] < 0
    /\ heap[root(it.tree)].left # None
    /\ heap[root(it.tree)].right # None

(***************************************************************************)
(* C7: clone independence.  clone(T) renders identically to T right after  *)
(* cloning, the two trees share no node, and an insert into either the     *)
(* original or the clone leaves the other tree's nodes and rendered form   *)
(* unchanged.                                                              *)
(***************************************************************************)
C7_CloneIndependence ==
    [][/\ last'.op = "clone" =>
            /\ fmt(heap', sample2') = fmt(heap', sample')
            /\ fmt(heap', sample') = fmt(heap, sample)
            /\ Nodes(heap', sample') \cap Nodes(heap', sample2') = {}
       /\ \A t \in Live, v \in Values :
            (InsertStep(t, v) /\ sample2 # None) =>
                LET o == Other(t) IN
                /\ root(o)' = root(o)
                /\ Nodes(heap', root(o)') = Nodes(heap, root(o))
                /\ \A n \in Nodes(heap, root(o)) : heap'[n] = heap[n]
                /\ fmt(heap', root(o)') = fmt(heap, root(o))
                /\ Nodes(heap', sample') \cap Nodes(heap', sample2') = {}]_vars

\* a tree with a child was cloned and the original then grew
C7_Witness ==
    /\ sample2 # None
    /\ Cardinality(Nodes(heap, sample2)) = 2
    /\ Cardinality(Nodes(heap, sample)) = 3
    /\ last.op = "insert" /\ last.ok /\ last.tree = "sample"

(***************************************************************************)
(* Exact totals: an integer as <<hi, lo>> = hi * 2^16 + lo, so that the    *)
(* total of several i32 values is computed without leaving 32 bits         *)
(***************************************************************************)
Base == 2 ^ 16

Exact(v) == <<v \div Base, v % Base>>

RECURSIVE Total(_)
Total(S) ==
    IF S = {} THEN <<0, 0>>
    ELSE LET x == CHOOSE y \in S : TRUE
             r == Total(S \ {x})
             lo == r[2] + (x % Base)
         IN  <<r[1] + (x \div Base) + (lo \div Base), lo % Base>>

FitsI32(T) == T[1] \in -(2 ^ 15) .. (2 ^ 15 - 1)

\* T modulo 2^32, in two's complement
Wrapped(T) == (((T[1] + 2 ^ 15) % Base) - 2 ^ 15) * Base + T[2]

\* every running total of the ascending fold over S is an i32
FoldFits(S) == \A x \in S : FitsI32(Total({v \in S : v <= x}))

(***************************************************************************)
(* C8 as stated: for all trees, sum() equals the arithmetic total of the   *)
(* values stored in the tree.                                              *)
(***************************************************************************)
C8_SumIsTotal ==
    last.op = "sum" =>
        /\ last.ok
        /\ Exact(last.item[1]) = Total(Vals(heap, root(last.tree)))

(***************************************************************************)
(* C8, amended: sum() equals the arithmetic total of the values stored in  *)
(* the tree whenever every running total of the ascending fold, started    *)
(* from 0, is an i32; otherwise sum() panics (overflow checks on) or       *)
(* returns the total modulo 2^32 (overflow checks off).                    *)
(***************************************************************************)
C8_SumWithinRange ==
    last.op = "sum" =>
        LET S == Vals(heap, root(last.tree))
        IN  IF FoldFits(S)
            THEN last.ok /\ Exact(last.item[1]) = Total(S)
            ELSE ~last.ok \/ last.item[1] = Wrapped(Total(S))

\* sum() returned the total of three values, positive and negative
C8_Witness ==
    /\ last.op = "sum" /\ last.ok
    /\ Cardinality(Vals(heap, root(last.tree))) = 3
    /\ FoldFits(Vals(heap, root(last.tree)))
    /\ last.item[1] # 0

(***************************************************************************)
(* C9: size/termination.  Iterating a tree built from n distinct values    *)
(* (the constructor's and the inserted ones) yields exactly n elements and *)
(* then terminates: every next() that returns a value adds one to the      *)
(* count, the count never exceeds n, the stack is empty exactly when n     *)
(* values have been returned, and next() returns None only then.           *)
(***************************************************************************)
C9_SizeTermination ==
    [][it'.alive =>
         LET n == Cardinality(given'[it'.tree]) IN
         /\ Len(it'.out) <= n
         /\ it'.nodes = <<>> <=> Len(it'.out) = n
         /\ (last'.op = "next" /\ last'.ok) =>
                Len(it'.out) = Len(it.out) + 1
         /\ (last'.op = "next" /\ ~last'.ok) =>
                Len(it.out) = n /\ it'.out = it.out]_vars

\* next() returned None after four values
C9_Witness ==
    /\ it.alive
    /\ last.op = "next" /\ ~last.ok
    /\ Len(it.out) = 4
    /\ Cardinality(given[it.tree]) = 4

(***************************************************************************)
(* C10: exhaustion is terminal.  Once next() has returned None, every      *)
(* later next() on the same iterator returns None, the stack stays empty   *)
(* and no element is produced again.                                       *)
(***************************************************************************)
C10_ExhaustionTerminal ==
    [][(it.alive /\ it.nones > 0 /\ it'.alive) =>
         /\ it.nodes = <<>>
         /\ it'.nodes = <<>>
         /\ it'.out = it.out
         /\ last'.op = "next" => (~last'.ok /\ last'.item = <<>>)]_vars

\* next() was called twice on an exhausted iterator over three values
C10_Witness ==
    /\ it.alive
    /\ it.nones = 2
    /\ Len(it.out) = 3
    /\ last.op = "next" /\ ~last.ok

(***************************************************************************)
(* More vocabulary                                                         *)
(***************************************************************************)
Min(S) == CHOOSE x \in S : \A y \in S : x <= y

\* the elements of S in ascending order
RECURSIVE SortedSeq(_)
SortedSeq(S) ==
    IF S = {} THEN <<>> ELSE <<Min(S)>> \o SortedSeq(S \ {Min(S)})

\* the number of nodes on the longest path from r to a leaf
RECURSIVE Height(_, _)
Height(h, r) ==
    IF r = None THEN 0
    ELSE LET l == Height(h, h[r].left)
             g == Height(h, h[r].right)
         IN  1 + (IF l > g THEN l ELSE g)

\* no node of the tree has a right child
IsLeftChain(h, r) == \A n \in Nodes(h, r) : h[n].right = None

NoRepeat(seq) == \A i, j \in 1..Len(seq) : seq[i] = seq[j] => i = j

\* the iterators that exist
Iters == {i \in {it, it2} : i.alive}

\* text is the values of S in ascending order, a single space between
\* consecutive values and nothing else
RenderFormat(text, S) ==
    /\ text = Join(SortedSeq(S))
    /\ text[1] # " "
    /\ text[Len(text)] # " "
    /\ Cardinality({i \in 1..Len(text) : text[i] = " "}) = Cardinality(S) - 1
    /\ \A i \in 1..(Len(text) - 1) : ~(text[i] = " " /\ text[i + 1] = " ")
    /\ \A i \in 1..Len(text) : text[i] \in Range(DigitChars) \cup {"-", " "}

(***************************************************************************)
(* C11: render format.  The rendering of a tree holding n values is the n  *)
(* values in ascending order with exactly one space between consecutive    *)
(* values, no leading space, no trailing space and no other character, for *)
(* every tree shape.                                                       *)
(***************************************************************************)
C11_RenderFormat ==
    /\ \A t \in Live : RenderFormat(fmt(heap, root(t)), Vals(heap, root(t)))
    /\ last.op = "render" =>
          RenderFormat(last.text, Vals(heap, root(last.tree)))

\* a tree of four values was rendered in which one node has both children,
\* one only a left child, and the others none
C11_Witness ==
    /\ last.op = "render"
    /\ LET N == Nodes(heap, root(last.tree)) IN
       /\ Cardinality(N) = 4
       /\ \E n \in N : heap[n].left # None /\ heap[n].right # None
       /\ \E n \in N : heap[n].left # None /\ heap[n].right = None

(***************************************************************************)
(* C12: iterator invariant.  After BstIter::new and after each next(), if  *)
(* the stack is non-empty the node on top holds the smallest value of the  *)
(* tree that has not yet been returned.                                    *)
(***************************************************************************)
C12_TopIsLeastUnreturned ==
    (it.alive /\ it.nodes # <<>>) =>
        heap[Top(it.nodes)].value =
            Min(Vals(heap, root(it.tree)) \ Range(it.out))

\* next() returned a value and descended into a right subtree whose least
\* node is not its root
C12_Witness ==
    /\ it.alive /\ last.op = "next" /\ last.ok
    /\ LET right == heap[it.popped[Len(it.popped)]].right IN
       /\ right # None
       /\ it.nodes # <<>>
       /\ Top(it.nodes) \in Nodes(heap, heap[right].left)

(***************************************************************************)
(* C13: initialization.  Right after BstIter::new(root) the stack is       *)
(* exactly the left spine of root: root at the bottom, each next entry the *)
(* left child of the entry below it, and on top the node with no left      *)
(* child, which holds the minimum value of the tree.                       *)
(***************************************************************************)
IsLeftSpine(h, nodes, r) ==
    /\ nodes # <<>>
    /\ nodes[1] = r
    /\ \A i \in 1..(Len(nodes) - 1) : nodes[i + 1] = h[nodes[i]].left
    /\ h[Top(nodes)].left = None
    /\ h[Top(nodes)].value = Min(Vals(h, r))

C13_InitLeftSpine ==
    /\ \A t \in Live : IsLeftSpine(heap, BstIterNew(heap, root(t)), root(t))
    /\ (it.alive /\ last.op = "iter") =>
          IsLeftSpine(heap, it.nodes, root(it.tree))

\* an iterator was created on a tree whose left spine has three nodes and
\* whose root has a right child
C13_Witness ==
    /\ it.alive /\ last.op = "iter"
    /\ Len(it.nodes) = 3
    /\ heap[root(it.tree)].right # None

(***************************************************************************)
(* C14: stack content at every step boundary.  Every node on the stack     *)
(* lies in the left subtree of the node below it, no already-returned node *)
(* is on the stack, the values not yet returned are exactly the values of  *)
(* the stack nodes together with the values in their right subtrees, and   *)
(* the stack is empty exactly when every value has been returned.          *)
(***************************************************************************)
C14_StackContent ==
    it.alive =>
        LET all == Vals(heap, root(it.tree))
            on_stack == Range(it.nodes)
            owed == {heap[n].value : n \in on_stack} \cup
                    UNION {Vals(heap, heap[n].right) : n \in on_stack}
        IN  /\ on_stack \subseteq Nodes(heap, root(it.tree))
            /\ \A i \in 2..Len(it.nodes) :
                  it.nodes[i] \in Nodes(heap, heap[it.nodes[i - 1]].left)
            /\ on_stack \cap Range(it.popped) = {}
            /\ \A n \in on_stack : heap[n].value \notin Range(it.out)
            /\ all \ Range(it.out) = owed
            /\ it.nodes = <<>> <=> Range(it.out) = all

\* part of the tree has been returned, and two nodes are on the stack, the
\* lower one with a right subtree still to visit
C14_Witness ==
    /\ it.alive
    /\ it.out # <<>>
    /\ Len(it.nodes) = 2
    /\ heap[it.nodes[1]].right # None
    /\ it.nodes[1] # root(it.tree)

(***************************************************************************)
(* C15: O(h) auxiliary space.  After new and after every next() the number *)
(* of node references on the stack is at most the height of the tree (the  *)
(* number of nodes on its longest root-to-leaf path), and it is less than  *)
(* the node count for every tree that is not a single left chain.          *)
(***************************************************************************)
C15_StackWithinHeight ==
    it.alive =>
        /\ Len(it.nodes) <= Height(heap, root(it.tree))
        /\ ~IsLeftChain(heap, root(it.tree)) =>
              Len(it.nodes) < Cardinality(Nodes(heap, root(it.tree)))

\* the stack holds as many nodes as the height of a tree of four nodes
\* that is no chain
C15_Witness ==
    /\ it.alive
    /\ Cardinality(Nodes(heap, root(it.tree))) = 4
    /\ Height(heap, root(it.tree)) = 3
    /\ Len(it.nodes) = 3

(***************************************************************************)
(* C16: amortized O(1) work per step.  Over a complete traversal of a tree *)
(* with n nodes every node is pushed onto the stack exactly once and       *)
(* popped exactly once, so new() and all next() calls together perform     *)
(* exactly n pushes.                                                       *)
(***************************************************************************)
C16_PushedOncePoppedOnce ==
    it.alive =>
        LET N == Nodes(heap, root(it.tree)) IN
        /\ NoRepeat(it.pushed)
        /\ NoRepeat(it.popped)
        /\ Range(it.pushed) \subseteq N
        /\ Len(it.pushed) = Len(it.popped) + Len(it.nodes)
        /\ Range(it.pushed) = Range(it.popped) \cup Range(it.nodes)
        /\ it.nones > 0 =>
              /\ Len(it.pushed) = Cardinality(N)
              /\ Len(it.popped) = Cardinality(N)
              /\ Range(it.pushed) = N
              /\ Range(it.popped) = N

\* a tree of four nodes was traversed to the end, with pushes made by new()
\* and by next()
C16_Witness ==
    /\ it.alive /\ it.nones > 0
    /\ Len(it.pushed) = 4
    /\ heap[root(it.tree)].left # None
    /\ heap[root(it.tree)].right # None

\* the root of tree t after the step
RootAfter(t) == IF t = "sample" THEN sample' ELSE sample2'

IsPrefix(a, b) == Len(a) <= Len(b) /\ a = SubSeq(b, 1, Len(a))

(***************************************************************************)
(* C17: several iterators over the same tree are independent.  When two    *)
(* iterators exist on one tree and their next() calls are interleaved in   *)
(* any order, each still yields the complete ascending sequence of the     *)
(* tree's values, and a step of one leaves the other as it was.            *)
(***************************************************************************)
C17_IndependentIterators ==
    [][(it'.alive /\ it2'.alive /\ it'.tree = it2'.tree) =>
         LET all == SortedSeq(Vals(heap', RootAfter(it'.tree))) IN
         /\ \A i \in {it', it2'} :
              /\ IsPrefix(i.out, all)
              /\ i.nodes = <<>> <=> i.out = all
              /\ i.nones > 0 => i.out = all
         /\ last'.op = "next" =>
              /\ it2' = it2
              /\ it'.out = it.out \o last'.item
              /\ last'.ok <=> it.out # all
         /\ last'.op = "next2" =>
              /\ it' = it
              /\ it2'.out = it2.out \o last'.item
              /\ last'.ok <=> it2.out # all]_vars

\* two iterators are part-way through a tree of four values, at different
\* positions, the second having just stepped past the first
C17_Witness ==
    /\ it.alive /\ it2.alive /\ it.tree = it2.tree
    /\ Cardinality(Nodes(heap, root(it.tree))) = 4
    /\ Len(it.out) = 2
    /\ Len(it2.out) = 3
    /\ last.op = "next2"

(***************************************************************************)
(* C18: read-only operations leave the tree unchanged.  Creating an        *)
(* iterator, every next() step, rendering and sum() modify no node, no     *)
(* value and no child link of either tree; only the stack of the iterator  *)
(* that is stepped changes.                                                *)
(***************************************************************************)
C18_ReadOnly ==
    [][last'.op \in {"iter", "next", "drop", "render", "sum"} =>
         /\ heap' = heap
         /\ sample' = sample
         /\ sample2' = sample2
         /\ it2' = it2
         /\ last'.op \in {"render", "sum"} => it' = it]_vars

\* sum() was called on a tree of three values while an iterator over it
\* was part-way through
C18_Witness ==
    /\ last.op = "sum"
    /\ it.alive /\ it.tree = last.tree
    /\ Len(it.out) = 2
    /\ it.nodes # <<>>
    /\ Cardinality(Nodes(heap, root(it.tree))) = 3

(***************************************************************************)
(* C19 as stated: the left-spine descent done by BstIter::new and by each  *)
(* next() uses only the explicit path stack, so its call nesting depth is  *)
(* bounded by a constant for every tree: the one activation of fill_left,  *)
(* whatever the length of the left spine.                                  *)
(***************************************************************************)
C19_ConstantDepth == it.alive => it.depth <= 1

(***************************************************************************)
(* C19, amended: the left-spine descent done by BstIter::new and by each   *)
(* next() is fill_left calling itself once for each left child, so its     *)
(* call nesting depth is the number of nodes the descent pushes, the       *)
(* length of the left spine descended and at most the height of the tree;  *)
(* it is one frame only where the build runs the tail call in place.       *)
(***************************************************************************)
C19_DepthIsSpine ==
    [][(it'.alive /\ last'.op \in {"iter", "next"}) =>
         LET k == Len(it'.pushed) - Len(it.pushed) IN
         /\ it'.depth \in {k, IF k > 1 THEN 1 ELSE k}
         /\ it'.depth <= Height(heap', RootAfter(it'.tree))]_vars

\* new() descended a left spine of three nodes in three nested calls
C19_Witness ==
    /\ it.alive /\ last.op = "iter"
    /\ Len(it.nodes) = 3
    /\ it.depth = 3

(***************************************************************************)
(* C20: node count.  A tree is never empty; after Bst::new(v) and any      *)
(* sequence of insert calls the number of nodes is 1 plus the number of    *)
(* insert calls that returned true, so the first next() of a fresh         *)
(* iterator returns a value and a full traversal yields that many          *)
(* elements.                                                               *)
(***************************************************************************)
C20_NodeCount ==
    /\ sample # None
    /\ \A t \in Live : Cardinality(Nodes(heap, root(t))) = 1 + trues[t]
    /\ it.alive =>
          /\ (it.popped = <<>> /\ it.nones = 0) => it.nodes # <<>>
          /\ it.nones > 0 => it.out # <<>>
          /\ it.nones > 0 => Len(it.out) = 1 + trues[it.tree]

\* a tree that took three successful inserts was traversed to the end
C20_Witness ==
    /\ it.alive /\ it.nones > 0
    /\ trues[it.tree] = 3
    /\ Len(it.out) = 4
====
